---- MODULE Spec2Model ----
(***************************************************************************)
(* Model of package bon (github.com/ilgooz/bon): two Bon routers b1 and b2 *)
(* joined by a pair of providers as in newBons (bon_test.go).  A Connect   *)
(* on one router opens a connection that the Run loop of the other router  *)
(* accepts and hands to a handleConn goroutine.                            *)
(*                                                                         *)
(* A connection is a pair of byte streams (net.Conn): "up" carries the     *)
(* bytes written by the initiator, "down" the bytes written by the         *)
(* receiver.  The registry locks hm and nhm are modelled by making each    *)
(* critical section one atomic step; the re-read of nonMatchingHandler at  *)
(* bon.go:200, which happens outside nhm, is a step of its own.            *)
(***************************************************************************)
EXTENDS Integers, Sequences, FiniteSets, TLC

\* ---------------------------------------------------------------- bounds
MaxCalls == 2      \* Connect calls made in one behaviour
MaxRegOps == 2     \* Handle/Off/HandleNonMatching/OffNonMatching calls
MaxSoloCalls == 1  \* Connect calls in the behaviours with Close and faults

\* ------------------------------------------------------- program constants
handlerExists == 1
nonMatchingHandlerExists == 2
handlerDoesNotExists == 4

Bons == {1, 2}
Peer(b) == 3 - b

Routes == {1, 256}
\* every route has a handler function of its own, as in bon_test.go
HandlerFor(r) == IF r = 1 THEN "h1" ELSE "h2"
\* the handler functions Handle may be given for any route
Handlers == {"h1", "h2"}
NonMatchingHandlers == {"f1"}
Nil == "nil"

CallIds == 1..MaxCalls
SoloCallIds == 1..MaxSoloCalls

\* errors
NoErr == <<>>
ErrNet == <<"ErrNet">>
ErrIO == <<"ErrIO">>
ErrClosed == <<"ErrClosed">>
EOF == <<"EOF">>
HandlerError(r) == <<"HandlerError", r>>
IsHandlerError(e) == Len(e) = 2

\* the bytes a handler writes once it owns a connection
Payload(h) ==
  CASE h = "h1" -> 101
    [] h = "h2" -> 102
    [] h = "f1" -> 111
    [] OTHER -> 199

\* ------------------------------------------------------------ byte helpers
PutUint32(v) ==
  << (v \div 16777216) % 256, (v \div 65536) % 256, (v \div 256) % 256, v % 256 >>

Uint32(buf) ==
  buf[1] * 16777216 + buf[2] * 65536 + buf[3] * 256 + buf[4]

Min(a, b) == IF a < b THEN a ELSE b

\* conn.Read(buf) with len(buf) = 4 that returned n bytes of stream s:
\* the first n bytes of buf are overwritten, the others keep make()'s zero.
FillBuf(s, n) == [i \in 1..4 |-> IF i <= n THEN s[i] ELSE 0]

Drop(s, n) == SubSeq(s, n + 1, Len(s))

VARIABLES
  handlers,            \* b.handlers: [Bons -> partial map Route -> handler]
  nonMatchingHandler,  \* b.nonMatchingHandler: [Bons -> handler or Nil]
  regOps,              \* registry operations performed so far
  removed,             \* history: the handler the last Off(r) removed
  run,                 \* the Run loop of each router
  closed,              \* provider.closeC of each router has been closed
  call,                \* the Connect calls
  conn,                \* the connections the calls opened
  task,                \* the handleConn goroutines
  app,                 \* the bytes each caller read from its connection
  transport,           \* the kind of connection the providers hand out
  lock,                \* b.hm and b.nhm: the write each lock's holder is to make
  replaced,            \* history: the handler the last Handle(r) overwrote
  ymx                  \* the Yamux transporters: a server and a client

vars == << handlers, nonMatchingHandler, regOps, removed, run, closed, call, conn,
           task, app, transport, lock, replaced, ymx >>

\* ----------------------------------------------------------------- Init
EmptyMap == [r \in {} |-> Nil]

\* a Connect call: its position, arguments, locals and return values, and
\* as history the transporter operations it made (steps) and the number of
\* registry operations that preceded its Open (epoch), whether its own
\* router had been closed by then and where the peer's Run loop was
InitCall == [pc |-> "idle", from |-> 0, route |-> 0, data |-> 0,
             conn |-> 0, err |-> NoErr, steps |-> <<>>, epoch |-> 0,
             closedAtOpen |-> FALSE, peerAtOpen |-> "idle"]
\* a connection: the two byte streams, the ends closed, and as history
\* the calls made on each end with their callers (opsI, opsR)
InitConn == [open |-> FALSE, up |-> <<>>, down |-> <<>>,
             closedI |-> FALSE, closedR |-> FALSE,
             opsI |-> <<>>, opsR |-> <<>>]
\* a handleConn goroutine: its position and locals, and as history the
\* handlers it invoked, its reads of the registry (variable, lock held,
\* writer inside its critical section) and the outcomes the registry
\* prescribed for its route while it was looking up (seen)
InitTask == [pc |-> "none", data |-> 0, h |-> Nil, handlerExistence |-> 0,
             invoked |-> <<>>, reads |-> <<>>, seen |-> {}]

\* no goroutine is inside Handle, Off, HandleNonMatching or OffNonMatching
NoWrite == <<>>

\* the Yamux instances of yamux_test.go: a server (ServerOption) and the
\* clients that dial it (ClientOption)
YServer == 0
YClients == {1, 2}
Yamuxes == {YServer} \cup YClients

\* a session is run by handleSession on either side of a dialled connection
YSessions == Yamuxes \X YClients

\* what a receive from the closed and drained Bons yields: a nil *bon.Bon
NilBon == <<>>

\* yamux.New: Bons is an empty open channel, nothing listens or runs
InitYamux ==
  [ pc |-> [y \in Yamuxes |-> "idle"],
    ln |-> "nil",
    backlog |-> <<>>,
    session |-> [s \in YSessions |-> "none"],
    Bons |-> [y \in Yamuxes |-> <<>>],
    closedBons |-> [y \in Yamuxes |-> FALSE],
    got |-> [y \in Yamuxes |-> <<>>],
    panic |-> "none" ]

\* everything but the registries, as New and newBons leave it
InitRest ==
  /\ lock = [b \in Bons |-> [hm |-> NoWrite, nhm |-> NoWrite]]
  /\ replaced = [b \in Bons |-> [r \in Routes |-> Nil]]
  /\ ymx = InitYamux
  /\ regOps = 0
  /\ removed = [b \in Bons |-> [r \in Routes |-> Nil]]
  /\ run = [b \in Bons |-> [pc |-> "idle", conn |-> 0, err |-> NoErr]]
  /\ closed = [b \in Bons |-> FALSE]
  /\ call = [k \in CallIds |-> InitCall]
  /\ conn = [k \in CallIds |-> InitConn]
  /\ task = [k \in CallIds |-> InitTask]
  /\ app = [k \in CallIds |-> <<>>]

InitCommon ==
  /\ handlers = [b \in Bons |-> EmptyMap]
  /\ nonMatchingHandler = [b \in Bons |-> Nil]
  /\ InitRest

\* "pipe": connections like bon_test.go's testConn: a Read hands over a
\* written word whole and I/O fails only on closed ends
Init == InitCommon /\ transport = "pipe"

\* "faulty": as "pipe", and any Read or Write may fail with a network error
InitFail == InitCommon /\ transport = "faulty"

\* "stream": a byte stream whose Read may return fewer bytes than buffered
InitStream == InitCommon /\ transport = "stream"

\* routers set up before serving, as the tests do: each with all of its
\* routes handled or none, with or without a fallback, over connections
\* that are reliable or may fail
FullMap == [r \in Routes |-> HandlerFor(r)]

InitServing ==
  /\ handlers \in [Bons -> {EmptyMap, FullMap}]
  /\ nonMatchingHandler \in [Bons -> {Nil} \cup NonMatchingHandlers]
  /\ InitRest
  /\ transport \in {"pipe", "faulty"}

\* "yamux": the routers are the two ends of a yamux session (service.go):
\* Open succeeds at once and the stream waits for the peer's Accept
InitYamuxSession == InitCommon /\ transport = "yamux"

\* ------------------------------------------------------------- registry
\* Lookup that ignores the route asked for
LookupAnyRoute(m, r) ==
  IF DOMAIN m = {} THEN Nil ELSE m[CHOOSE x \in DOMAIN m : TRUE]

Lookup(m, r) == IF r \in DOMAIN m THEN m[r] ELSE Nil

\* a Handle that keeps the handler a route already has
PutIfAbsent(m, r, h) ==
  [x \in DOMAIN m \cup {r} |-> IF x \in DOMAIN m THEN m[x] ELSE h]

Put(m, r, h) == [x \in DOMAIN m \cup {r} |-> IF x = r THEN h ELSE m[x]]

\* Delete that removes nothing
DeleteNothing(m, r) == m

Delete(m, r) == [x \in DOMAIN m \ {r} |-> m[x]]

\* what a lookup of route r yields in a registry with map m and fallback f:
\* the status and the handler
OutcomeOf(m, f, r) ==
  IF r \in DOMAIN m THEN << handlerExists, m[r] >>
  ELSE IF f # Nil THEN << nonMatchingHandlerExists, f >>
  ELSE << handlerDoesNotExists, Nil >>

\* a handleConn goroutine that has the route and has not finished its lookup
\* (bon.go:186-202)
InLookup(k) == task[k].pc \in {"lookup", "fallback", "reread"}

\* history: the goroutines looking up in router b's registry see it become
\* (m, f)
Observe(b, m, f) ==
  [k \in CallIds |->
     IF InLookup(k) /\ Peer(call[k].from) = b
     THEN [task[k] EXCEPT !.seen = @ \cup {OutcomeOf(m, f, task[k].data)}]
     ELSE task[k]]

\* b.handlers[r] = h (bon.go:96)
HandleStore(b, r, h) ==
  /\ handlers' = [handlers EXCEPT ![b] = Put(@, r, h)]
  /\ regOps' = regOps + 1
  /\ removed' = [removed EXCEPT ![b][r] = Nil]
  /\ replaced' = [replaced EXCEPT ![b][r] =
         IF r \in DOMAIN handlers[b] THEN handlers[b][r] ELSE Nil]
  /\ task' = Observe(b, Put(handlers[b], r, h), nonMatchingHandler[b])
  /\ UNCHANGED << nonMatchingHandler, run, closed, call, conn, app,
                  transport, ymx >>

\* b.nonMatchingHandler = h (bon.go:104, and bon.go:118 where h is nil)
NonMatchingStore(b, h) ==
  /\ nonMatchingHandler' = [nonMatchingHandler EXCEPT ![b] = h]
  /\ regOps' = regOps + 1
  /\ task' = Observe(b, handlers[b], h)
  /\ UNCHANGED << handlers, removed, run, closed, call, conn, app,
                  transport, replaced, ymx >>

\* delete(b.handlers, r) (bon.go:111)
OffStore(b, r) ==
  /\ handlers' = [handlers EXCEPT ![b] = Delete(@, r)]
  /\ regOps' = regOps + 1
  /\ removed' = [removed EXCEPT ![b][r] =
         IF r \in DOMAIN handlers[b] THEN handlers[b][r] ELSE Nil]
  /\ task' = Observe(b, Delete(handlers[b], r), nonMatchingHandler[b])
  /\ UNCHANGED << nonMatchingHandler, run, closed, call, conn, app,
                  transport, replaced, ymx >>

\* Handle, HandleNonMatching, Off and OffNonMatching as one step each: Lock,
\* the store and Unlock
Handle(b, r, h) ==
  /\ regOps < MaxRegOps
  /\ lock[b].hm = NoWrite
  /\ HandleStore(b, r, h)
  /\ UNCHANGED lock

HandleNonMatching(b, h) ==
  /\ regOps < MaxRegOps
  /\ lock[b].nhm = NoWrite
  /\ NonMatchingStore(b, h)
  /\ UNCHANGED lock

Off(b, r) ==
  /\ regOps < MaxRegOps
  /\ lock[b].hm = NoWrite
  /\ OffStore(b, r)
  /\ UNCHANGED lock

OffNonMatching(b) ==
  /\ regOps < MaxRegOps
  /\ lock[b].nhm = NoWrite
  /\ NonMatchingStore(b, Nil)
  /\ UNCHANGED lock

\* the same four at the grain of their locks.  Lock: the goroutine has
\* entered the critical section and is about to store
WritesAhead(b) ==
  (IF lock[b].hm = NoWrite THEN 0 ELSE 1) + (IF lock[b].nhm = NoWrite THEN 0 ELSE 1)

HmLock(b, w) ==
  /\ regOps + WritesAhead(b) + WritesAhead(Peer(b)) < MaxRegOps
  /\ lock[b].hm = NoWrite
  /\ lock' = [lock EXCEPT ![b].hm = w]
  /\ UNCHANGED << handlers, nonMatchingHandler, regOps, removed, run, closed,
                  call, conn, task, app, transport, replaced, ymx >>

NhmLock(b, w) ==
  /\ regOps + WritesAhead(b) + WritesAhead(Peer(b)) < MaxRegOps
  /\ lock[b].nhm = NoWrite
  /\ lock' = [lock EXCEPT ![b].nhm = w]
  /\ UNCHANGED << handlers, nonMatchingHandler, regOps, removed, run, closed,
                  call, conn, task, app, transport, replaced, ymx >>

HandleLock(b, r, h) == HmLock(b, << "Handle", r, h >>)

OffLock(b, r) == HmLock(b, << "Off", r >>)

HandleNonMatchingLock(b, h) == NhmLock(b, << "HandleNonMatching", h >>)

OffNonMatchingLock(b) == NhmLock(b, << "OffNonMatching", Nil >>)

\* the store and b.hm.Unlock()
HmUnlock(b) ==
  /\ lock[b].hm # NoWrite
  /\ IF lock[b].hm[1] = "Handle"
     THEN HandleStore(b, lock[b].hm[2], lock[b].hm[3])
     ELSE OffStore(b, lock[b].hm[2])
  /\ lock' = [lock EXCEPT ![b].hm = NoWrite]

\* the store and b.nhm.Unlock()
NhmUnlock(b) ==
  /\ lock[b].nhm # NoWrite
  /\ NonMatchingStore(b, lock[b].nhm[2])
  /\ lock' = [lock EXCEPT ![b].nhm = NoWrite]

\* ------------------------------------------------------------ transport
\* side "I" is the end Open returned to the initiator, side "R" the end
\* Accept returned to the receiver.
OwnClosed(c, side) == IF side = "I" THEN conn[c].closedI ELSE conn[c].closedR

PeerClosed(c, side) == IF side = "I" THEN conn[c].closedR ELSE conn[c].closedI

InStream(c, side) == IF side = "I" THEN conn[c].down ELSE conn[c].up

\* history: actor called op on its end of connection record c
DidI(c, actor, op) == [c EXCEPT !.opsI = Append(@, << actor, op >>)]

DidR(c, actor, op) == [c EXCEPT !.opsR = Append(@, << actor, op >>)]

\* the errors conn.Write may return; NoErr when the bytes are accepted.  A
\* Write on an end that is closed, or whose peer end is closed, fails; any
\* other Write succeeds or fails with a network error.
WriteErrs(c, side) ==
  IF OwnClosed(c, side) \/ PeerClosed(c, side) THEN {ErrClosed}
  ELSE IF transport = "faulty" THEN {NoErr, ErrIO}
  ELSE {NoErr}

\* the errors conn.Read may return; NoErr when it returns bytes or blocks
ReadErrs(c, side) ==
  IF OwnClosed(c, side) THEN {ErrClosed}
  ELSE IF InStream(c, side) = <<>> /\ PeerClosed(c, side) THEN {EOF}
  ELSE IF transport = "faulty" THEN {NoErr, ErrIO}
  ELSE {NoErr}

\* a Read that gives up waiting and returns with nothing read
ReadReadyAlways(s) == TRUE

\* conn.Read blocks until the stream s has bytes; nothing sets a deadline
ReadReady(s) == s # <<>>

\* the byte counts one Read into a 4-byte buffer may return
ReadSizes(s) ==
  IF transport = "stream" THEN 1..Min(4, Len(s)) ELSE {Min(4, Len(s))}

\* readUInt32's result for a Read that returned the first n bytes of s
readUInt32(s, n) == Uint32(FillBuf(s, n))

\* writeUInt32's bytes on the wire
writeUInt32(data) == PutUint32(data)

\* -------------------------------------------------- provider (bon_test.go)
\* an Open that also fails once the router's own provider is closed
OpenOkUnlessClosed(b) ==
  (transport = "yamux" \/ run[Peer(b)].pc = "accept") /\ ~closed[b]

\* provider.Open hands the new connection to the peer's Accept over an
\* unbuffered channel with a non-blocking send: it succeeds only while the
\* peer's Run is blocked in Accept.  session.Open of a yamux session
\* (service.go:24-26) succeeds whatever the peer is doing.
OpenOk(b) == transport = "yamux" \/ run[Peer(b)].pc = "accept"

\* a Run that, having started a handleConn, waits for it instead of
\* calling Accept again
AcceptPcWaiting(b) ==
  IF closed[b] \/ run[b].pc = "spawn" THEN "hung" ELSE "accept"

\* where Run is after calling Accept: blocked in the select, or, once
\* closeC is closed, stuck in Accept's deferred send on a nil channel.
AcceptPc(b) == IF closed[b] THEN "hung" ELSE "accept"

\* ------------------------------------------------------------------ Run
RunStart(b) ==
  /\ run[b].pc = "idle"
  /\ run' = [run EXCEPT ![b].pc = AcceptPc(b)]
  /\ UNCHANGED << handlers, nonMatchingHandler, regOps, removed, closed, call, conn,
                  task, app, transport,
                  lock, replaced, ymx >>

\* session.Accept (service.go:20-22) returns a stream the peer opened and
\* that no Accept has returned yet
RunAccept(b) ==
  /\ transport = "yamux"
  /\ run[b].pc = "accept"
  /\ \E k \in CallIds :
       /\ conn[k].open /\ call[k].from = Peer(b) /\ task[k].pc = "none"
       /\ run' = [run EXCEPT ![b] = [@ EXCEPT !.pc = "spawn", !.conn = k]]
  /\ UNCHANGED << handlers, nonMatchingHandler, regOps, removed, closed, call, conn,
                  task, app, transport, lock, replaced, ymx >>

\* go b.handleConn(conn), then back to Accept
RunSpawn(b) ==
  /\ run[b].pc = "spawn"
  /\ task' = [task EXCEPT ![run[b].conn].pc = "readTag"]
  /\ run' = [run EXCEPT ![b] = [@ EXCEPT !.pc = AcceptPc(b), !.conn = 0]]
  /\ UNCHANGED << handlers, nonMatchingHandler, regOps, removed, closed, call, conn,
                  app, transport,
                  lock, replaced, ymx >>

\* what Close does to a Run loop in state pc: a Run blocked in Accept gets
\* ErrNet and returns it, any other Run is left where it is
CloseRun(r) ==
  IF r.pc = "accept" THEN [r EXCEPT !.pc = "returned", !.err = ErrNet] ELSE r

Close(b) ==
  /\ ~closed[b]
  /\ closed' = [closed EXCEPT ![b] = TRUE]
  /\ run' = [run EXCEPT ![b] = CloseRun(@)]
  /\ UNCHANGED << handlers, nonMatchingHandler, regOps, removed, call, conn, task,
                  app, transport,
                  lock, replaced, ymx >>

\* -------------------------------------------------------------- Connect
\* a return that hands out the connection whatever the error
ReturnConnAlways(k, c, err) ==
  [call[k] EXCEPT !.pc = "done", !.conn = k, !.err = err]

\* the return statement of Connect
Return(k, c, err) ==
  [call[k] EXCEPT !.pc = "done", !.conn = c, !.err = err]

\* a switch that takes every non-zero status for a match
ConnectResultNonZero(k, data) ==
  IF data # 0
  THEN [Return(k, k, NoErr) EXCEPT !.data = data]
  ELSE [Return(k, 0, HandlerError(call[k].route)) EXCEPT !.data = data]

\* the switch on the status read (bon.go:148-154)
ConnectResult(k, data) ==
  IF data = handlerExists \/ data = nonMatchingHandlerExists
  THEN [Return(k, k, NoErr) EXCEPT !.data = data]
  ELSE [Return(k, 0, HandlerError(call[k].route)) EXCEPT !.data = data]

Step(c, op, err) == [c EXCEPT !.steps = Append(@, <<op, err>>)]

ConnectOpen(k, b, r) ==
  /\ call[k].pc = "idle"
  /\ IF k = 1 THEN TRUE ELSE call[k - 1].pc # "idle"
  /\ IF OpenOk(b)
     THEN /\ call' = [call EXCEPT ![k] =
                 Step([@ EXCEPT !.pc = "write", !.from = b, !.route = r,
                                !.epoch = regOps,
                                !.closedAtOpen = closed[b],
                                !.peerAtOpen = run[Peer(b)].pc],
                      "Open", NoErr)]
          /\ conn' = [conn EXCEPT ![k].open = TRUE]
          /\ run' = IF transport = "yamux" THEN run
                     ELSE [run EXCEPT ![Peer(b)] =
                             [@ EXCEPT !.pc = "spawn", !.conn = k]]
     ELSE /\ call' = [call EXCEPT ![k] =
                 Step([Return(k, 0, ErrNet) EXCEPT !.from = b, !.route = r,
                                                   !.epoch = regOps,
                                                   !.closedAtOpen = closed[b],
                                                   !.peerAtOpen = run[Peer(b)].pc],
                      "Open", ErrNet)]
          /\ UNCHANGED << conn, run >>
  /\ UNCHANGED << handlers, nonMatchingHandler, regOps, removed, closed, task, app, transport,
                  lock, replaced, ymx >>

ConnectWrite(k) ==
  /\ call[k].pc = "write"
  /\ \E err \in WriteErrs(k, "I") :
       IF err # NoErr
       THEN /\ call' = [call EXCEPT ![k] =
                   Step(Return(k, 0, err), "Write", err)]
            /\ conn' = [conn EXCEPT ![k] = DidI(@, "Connect", "Write")]
       ELSE /\ call' = [call EXCEPT ![k] =
                   Step([@ EXCEPT !.pc = "read"], "Write", NoErr)]
            /\ conn' = [conn EXCEPT ![k] =
                   DidI([@ EXCEPT !.up = @ \o writeUInt32(call[k].route)],
                        "Connect", "Write")]
  /\ UNCHANGED << handlers, nonMatchingHandler, regOps, removed, run, closed, task,
                  app, transport,
                  lock, replaced, ymx >>

ConnectRead(k) ==
  /\ call[k].pc = "read"
  /\ \E err \in ReadErrs(k, "I") :
       IF err # NoErr
       THEN /\ call' = [call EXCEPT ![k] =
                   Step(Return(k, 0, err), "Read", err)]
            /\ conn' = [conn EXCEPT ![k] = DidI(@, "Connect", "Read")]
       ELSE /\ ReadReady(conn[k].down)
            /\ \E n \in ReadSizes(conn[k].down) :
                 /\ call' = [call EXCEPT ![k] =
                        Step(ConnectResult(k, readUInt32(conn[k].down, n)),
                             "Read", NoErr)]
                 /\ conn' = [conn EXCEPT ![k] =
                        DidI([@ EXCEPT !.down = Drop(@, n)], "Connect", "Read")]
  /\ UNCHANGED << handlers, nonMatchingHandler, regOps, removed, run, closed, task,
                  app, transport,
                  lock, replaced, ymx >>

\* ----------------------------------------------------------- handleConn
Receiver(k) == Peer(call[k].from)

\* a handleConn that calls the handler it holds before giving up
AbandonInvoking(k, pc) ==
  [task[k] EXCEPT !.pc = pc, !.invoked = Append(@, task[k].h)]

\* handleConn failed on I/O: it logs the error and returns
Abandon(k, pc) == [task[k] EXCEPT !.pc = pc]

\* bon.go:180-184
TaskReadTag(k) ==
  /\ task[k].pc = "readTag"
  /\ \E err \in ReadErrs(k, "R") :
       IF err # NoErr
       THEN /\ task' = [task EXCEPT ![k] = Abandon(k, "failedRead")]
            /\ conn' = [conn EXCEPT ![k] = DidR(@, "handleConn", "Read")]
       ELSE /\ ReadReady(conn[k].up)
            /\ \E n \in ReadSizes(conn[k].up) :
                 /\ task' = [task EXCEPT ![k] =
                        [@ EXCEPT !.pc = "lookup",
                                  !.data = readUInt32(conn[k].up, n),
                                  !.seen = {OutcomeOf(handlers[Receiver(k)],
                                              nonMatchingHandler[Receiver(k)],
                                              readUInt32(conn[k].up, n))}]]
                 /\ conn' = [conn EXCEPT ![k] =
                        DidR([@ EXCEPT !.up = Drop(@, n)], "handleConn", "Read")]
  /\ UNCHANGED << handlers, nonMatchingHandler, regOps, removed, run, closed, call,
                  app, transport,
                  lock, replaced, ymx >>

\* an exact match reported with the fallback's status
AfterExactAsFallback(t, h) ==
  IF h # Nil
  THEN [t EXCEPT !.pc = "writeStatus", !.h = h,
                 !.handlerExistence = nonMatchingHandlerExists]
  ELSE [t EXCEPT !.pc = "fallback", !.h = Nil,
                 !.handlerExistence = handlerDoesNotExists]

\* bon.go:186-192: the read of b.handlers under hm.RLock
AfterExact(t, h) ==
  IF h # Nil
  THEN [t EXCEPT !.pc = "writeStatus", !.h = h,
                 !.handlerExistence = handlerExists]
  ELSE [t EXCEPT !.pc = "fallback", !.h = Nil,
                 !.handlerExistence = handlerDoesNotExists]

\* history of a read of the registry: the variable read, the lock held for
\* it and whether a writer of that variable was inside its critical section
Read(t, variable, held, overlap) ==
  [t EXCEPT !.reads = Append(@, << variable, held, overlap >>)]

TaskLookup(k) ==
  /\ task[k].pc = "lookup"
  /\ lock[Receiver(k)].hm = NoWrite
  /\ task' = [task EXCEPT ![k] =
         Read(AfterExact(@, Lookup(handlers[Receiver(k)], task[k].data)),
              "handlers", "hm", FALSE)]
  /\ UNCHANGED << handlers, nonMatchingHandler, regOps, removed, run, closed, call,
                  conn, app, transport,
                  lock, replaced, ymx >>

\* a lookup that, finding no handler, goes on without writing the status
AfterFallbackSkipsStatus(t, h) ==
  IF h # Nil
  THEN [t EXCEPT !.pc = "reread", !.h = h,
                 !.handlerExistence = nonMatchingHandlerExists]
  ELSE [t EXCEPT !.pc = "act", !.h = Nil]

\* bon.go:194-199: the read of b.nonMatchingHandler under nhm.RLock
AfterFallback(t, h) ==
  IF h # Nil
  THEN [t EXCEPT !.pc = "reread", !.h = h,
                 !.handlerExistence = nonMatchingHandlerExists]
  ELSE [t EXCEPT !.pc = "writeStatus", !.h = Nil]

TaskFallback(k) ==
  /\ task[k].pc = "fallback"
  /\ lock[Receiver(k)].nhm = NoWrite
  /\ task' = [task EXCEPT ![k] =
         Read(AfterFallback(@, nonMatchingHandler[Receiver(k)]),
              "nonMatchingHandler", "nhm", FALSE)]
  /\ UNCHANGED << handlers, nonMatchingHandler, regOps, removed, run, closed, call,
                  conn, app, transport,
                  lock, replaced, ymx >>

\* bon.go:200: h = b.nonMatchingHandler again, after nhm.RUnlock
AfterReread(t, h) == [t EXCEPT !.pc = "writeStatus", !.h = h]

\* what an unsynchronised read of b.nonMatchingHandler may yield: the
\* value stored, or the one a writer inside its critical section is storing
RereadValues(b) ==
  {nonMatchingHandler[b]} \cup
    (IF lock[b].nhm = NoWrite THEN {} ELSE {lock[b].nhm[2]})

TaskReread(k) ==
  /\ task[k].pc = "reread"
  /\ \E h \in RereadValues(Receiver(k)) :
       task' = [task EXCEPT ![k] =
           Read(AfterReread(@, h), "nonMatchingHandler", "none",
                lock[Receiver(k)].nhm # NoWrite)]
  /\ UNCHANGED << handlers, nonMatchingHandler, regOps, removed, run, closed, call,
                  conn, app, transport,
                  lock, replaced, ymx >>

\* bon.go:204-209
TaskWriteStatus(k) ==
  /\ task[k].pc = "writeStatus"
  /\ \E err \in WriteErrs(k, "R") :
       IF err # NoErr
       THEN /\ task' = [task EXCEPT ![k] = Abandon(k, "failedWrite")]
            /\ conn' = [conn EXCEPT ![k] = DidR(@, "handleConn", "Write")]
       ELSE /\ task' = [task EXCEPT ![k].pc = "act"]
            /\ conn' = [conn EXCEPT ![k] =
                   DidR([@ EXCEPT !.down =
                           @ \o writeUInt32(task[k].handlerExistence)],
                        "handleConn", "Write")]
  /\ UNCHANGED << handlers, nonMatchingHandler, regOps, removed, run, closed, call,
                  app, transport,
                  lock, replaced, ymx >>

\* the test on h inverted
InvokesInverted(t) == t.h = Nil

\* bon.go:211-218: h(conn), or conn.Close() when h is nil
Invokes(t) == t.h # Nil

\* the handler owns the connection and writes its bytes on it
\* (bon_test.go:227-229); a failed Write is ignored there
HandlerWrite(c, h) ==
  DidR(IF NoErr \in WriteErrs(c, "R")
       THEN [conn[c] EXCEPT !.down = @ \o << Payload(h) >>]
       ELSE conn[c],
       "handler", "Write")

\* a handleConn that closes the connection when the handler returns
AfterHandlerClose(c) ==
  DidR([c EXCEPT !.closedR = TRUE], "handleConn", "Close")

\* h(conn) is the last statement of its branch (bon.go:211-213): when the
\* handler returns, handleConn returns and leaves the connection alone
AfterHandler(c) == c

TaskAct(k) ==
  /\ task[k].pc = "act"
  /\ IF Invokes(task[k])
     THEN /\ task' = [task EXCEPT ![k] =
                 [@ EXCEPT !.pc = "dispatched",
                           !.invoked = Append(@, task[k].h)]]
          /\ conn' = [conn EXCEPT ![k] = AfterHandler(HandlerWrite(k, task[k].h))]
     ELSE /\ task' = [task EXCEPT ![k].pc = "closed"]
          /\ conn' = [conn EXCEPT ![k] =
                 DidR([@ EXCEPT !.closedR = TRUE], "handleConn", "Close")]
  /\ UNCHANGED << handlers, nonMatchingHandler, regOps, removed, run, closed, call,
                  app, transport,
                  lock, replaced, ymx >>

\* ---------------------------------------------------------------- callers
\* the caller reads from the connection Connect returned (bon_test.go:232-236)
CallerRead(k) ==
  /\ call[k].pc = "done"
  /\ call[k].conn # 0
  /\ app[k] = <<>>
  /\ NoErr \in ReadErrs(k, "I")
  /\ ReadReady(conn[k].down)
  /\ app' = [app EXCEPT ![k] = << Head(conn[k].down) >>]
  /\ conn' = [conn EXCEPT ![k] = DidI([@ EXCEPT !.down = Tail(@)], "caller", "Read")]
  /\ UNCHANGED << handlers, nonMatchingHandler, regOps, removed, run, closed, call,
                  task, transport,
                  lock, replaced, ymx >>

\* ---------------------------------------------- Yamux (transporters/yamux)
routerVars == << handlers, nonMatchingHandler, regOps, removed, run, closed, call,
                conn, task, app, transport, lock, replaced >>

\* the process is alive: no goroutine has panicked
YAlive == ymx.panic = "none"

\* Run of the server (yamux.go:100-105): net.Listen, then the accept loop
YRunServer ==
  /\ YAlive
  /\ ymx.pc[YServer] = "idle"
  /\ ymx' = [ymx EXCEPT !.pc[YServer] = "accept", !.ln = "open"]
  /\ UNCHANGED routerVars

\* Run of a client (yamux.go:118-124, 135-142): dial the server; on success
\* start handleSession and return nil, else return the dial error
YRunClient(c) ==
  /\ YAlive
  /\ ymx.pc[c] = "idle"
  /\ IF ymx.ln = "open"
     THEN ymx' = [ymx EXCEPT !.pc[c] = "returned",
                             !.backlog = Append(@, c),
                             !.session[<< c, c >>] = "send"]
     ELSE ymx' = [ymx EXCEPT !.pc[c] = "failed"]
  /\ UNCHANGED routerVars

\* one turn of the server's loop (yamux.go:106-115, 126-133): ln.Accept
\* returns a connection, for which handleSession is started, or fails once
\* the listener is closed, and Run returns
YAccept ==
  /\ YAlive
  /\ ymx.pc[YServer] = "accept"
  /\ IF ymx.ln = "closed"
     THEN ymx' = [ymx EXCEPT !.pc[YServer] = "returned"]
     ELSE /\ ymx.backlog # <<>>
          /\ ymx' = [ymx EXCEPT !.backlog = Tail(@),
                                !.session[<< YServer, Head(ymx.backlog) >>] = "send"]
  /\ UNCHANGED routerVars

\* handleSession's y.Bons <- b (yamux.go:145-147); a send on a closed
\* channel panics
YSessionSend(y, c) ==
  /\ YAlive
  /\ ymx.session[<< y, c >>] = "send"
  /\ IF ymx.closedBons[y]
     THEN ymx' = [ymx EXCEPT !.session[<< y, c >>] = "panicked",
                             !.panic = "send on closed channel"]
     ELSE ymx' = [ymx EXCEPT !.Bons[y] = Append(@, << y, c >>),
                             !.session[<< y, c >>] =
                                IF y = YServer THEN "done" ELSE "close"]
  /\ UNCHANGED routerVars

\* handleSession's close(y.Bons) on a client (yamux.go:148-150)
YSessionClose(y, c) ==
  /\ YAlive
  /\ ymx.session[<< y, c >>] = "close"
  /\ IF ymx.closedBons[y]
     THEN ymx' = [ymx EXCEPT !.session[<< y, c >>] = "panicked",
                             !.panic = "close of closed channel"]
     ELSE ymx' = [ymx EXCEPT !.closedBons[y] = TRUE,
                             !.session[<< y, c >>] = "done"]
  /\ UNCHANGED routerVars

\* Close of the server (yamux.go:154-158), called once its Run listens:
\* close(y.Bons), then y.ln.Close()
YClose ==
  /\ YAlive
  /\ ymx.ln = "open"
  /\ ~ymx.closedBons[YServer]
  /\ ymx' = [ymx EXCEPT !.closedBons[YServer] = TRUE, !.ln = "closed"]
  /\ UNCHANGED routerVars

\* Close as the code has it (yamux.go:154-160), called at any moment and any
\* number of times: on a server close(y.Bons), which panics on a closed
\* channel, then y.ln.Close(), which panics on the nil listener of a server
\* whose Run has not listened; on a client nothing
YCloseAnytime(y) ==
  /\ YAlive
  /\ IF y # YServer THEN ymx' = ymx
     ELSE IF ymx.closedBons[y]
     THEN ymx' = [ymx EXCEPT !.panic = "close of closed channel"]
     ELSE IF ymx.ln = "nil"
     THEN ymx' = [ymx EXCEPT !.closedBons[y] = TRUE,
                             !.panic = "nil pointer dereference"]
     ELSE ymx' = [ymx EXCEPT !.closedBons[y] = TRUE, !.ln = "closed"]
  /\ UNCHANGED routerVars

\* <-y.Bons by the user of y (yamux_test.go:26, 36, 49, 56): the next Bon
\* buffered, or nil once the channel is closed and drained
YRecv(y) ==
  /\ YAlive
  /\ IF ymx.Bons[y] # <<>>
     THEN ymx' = [ymx EXCEPT !.got[y] = Append(@, Head(ymx.Bons[y])),
                             !.Bons[y] = Tail(@)]
     ELSE /\ ymx.closedBons[y]
          /\ NilBon \notin {ymx.got[y][i] : i \in 1..Len(ymx.got[y])}
          /\ ymx' = [ymx EXCEPT !.got[y] = Append(@, NilBon)]
  /\ UNCHANGED routerVars

\* the Bon of a session as a router of this model: the first client's
\* session joins router 1 (the server's end) and router 2 (the client's end)
YServerBon == 1
YClientBon == 2
BonOf(b) == IF b = YServerBon THEN << YServer, 1 >> ELSE << 1, 1 >>

\* the user holds router b: it received it from Bons
Holds(b) ==
  /\ YAlive
  /\ \E i \in 1..Len(ymx.got[BonOf(b)[1]]) : ymx.got[BonOf(b)[1]][i] = BonOf(b)

\* ------------------------------------------------------------------ Next
\* routing: registry operations, accept loops, Connects and dispatch
Next ==
  \/ \E b \in Bons, r \in Routes : Handle(b, r, HandlerFor(r))
  \/ \E b \in Bons, h \in NonMatchingHandlers : HandleNonMatching(b, h)
  \/ \E b \in Bons, r \in Routes : Off(b, r)
  \/ \E b \in Bons : OffNonMatching(b)
  \/ \E b \in Bons : RunStart(b)
  \/ \E b \in Bons : RunSpawn(b)
  \/ \E k \in CallIds, b \in Bons, r \in Routes : ConnectOpen(k, b, r)
  \/ \E k \in CallIds : ConnectWrite(k)
  \/ \E k \in CallIds : ConnectRead(k)
  \/ \E k \in CallIds : TaskReadTag(k)
  \/ \E k \in CallIds : TaskLookup(k)
  \/ \E k \in CallIds : TaskFallback(k)
  \/ \E k \in CallIds : TaskReread(k)
  \/ \E k \in CallIds : TaskWriteStatus(k)
  \/ \E k \in CallIds : TaskAct(k)
  \/ \E k \in CallIds : CallerRead(k)

\* one Connect at a time, with Close and whatever the transport allows
NextSolo ==
  \/ \E b \in Bons, r \in Routes : Handle(b, r, HandlerFor(r))
  \/ \E b \in Bons, h \in NonMatchingHandlers : HandleNonMatching(b, h)
  \/ \E b \in Bons, r \in Routes : Off(b, r)
  \/ \E b \in Bons : OffNonMatching(b)
  \/ \E b \in Bons : RunStart(b)
  \/ \E b \in Bons : RunSpawn(b)
  \/ \E b \in Bons : Close(b)
  \/ \E k \in SoloCallIds, b \in Bons, r \in Routes : ConnectOpen(k, b, r)
  \/ \E k \in SoloCallIds : ConnectWrite(k)
  \/ \E k \in SoloCallIds : ConnectRead(k)
  \/ \E k \in SoloCallIds : TaskReadTag(k)
  \/ \E k \in SoloCallIds : TaskLookup(k)
  \/ \E k \in SoloCallIds : TaskFallback(k)
  \/ \E k \in SoloCallIds : TaskReread(k)
  \/ \E k \in SoloCallIds : TaskWriteStatus(k)
  \/ \E k \in SoloCallIds : TaskAct(k)
  \/ \E k \in SoloCallIds : CallerRead(k)

\* the steps goroutines take without waiting for anybody's input: Go runs
\* every runnable goroutine eventually
Scheduled ==
  \/ \E b \in Bons : RunSpawn(b)
  \/ \E k \in CallIds : ConnectWrite(k)
  \/ \E k \in CallIds : ConnectRead(k)
  \/ \E k \in CallIds : TaskReadTag(k)
  \/ \E k \in CallIds : TaskLookup(k)
  \/ \E k \in CallIds : TaskFallback(k)
  \/ \E k \in CallIds : TaskReread(k)
  \/ \E k \in CallIds : TaskWriteStatus(k)
  \/ \E k \in CallIds : TaskAct(k)

\* one Connect at a time, the registry operations at the grain of their
\* locks
NextLocks ==
  \/ \E b \in Bons, r \in Routes : HandleLock(b, r, HandlerFor(r))
  \/ \E b \in Bons, r \in Routes : OffLock(b, r)
  \/ \E b \in Bons, h \in NonMatchingHandlers : HandleNonMatchingLock(b, h)
  \/ \E b \in Bons : OffNonMatchingLock(b)
  \/ \E b \in Bons : HmUnlock(b)
  \/ \E b \in Bons : NhmUnlock(b)
  \/ \E b \in Bons : RunStart(b)
  \/ \E b \in Bons : RunSpawn(b)
  \/ \E k \in SoloCallIds, b \in Bons, r \in Routes : ConnectOpen(k, b, r)
  \/ \E k \in SoloCallIds : ConnectWrite(k)
  \/ \E k \in SoloCallIds : ConnectRead(k)
  \/ \E k \in SoloCallIds : TaskReadTag(k)
  \/ \E k \in SoloCallIds : TaskLookup(k)
  \/ \E k \in SoloCallIds : TaskFallback(k)
  \/ \E k \in SoloCallIds : TaskReread(k)
  \/ \E k \in SoloCallIds : TaskWriteStatus(k)
  \/ \E k \in SoloCallIds : TaskAct(k)
  \/ \E k \in SoloCallIds : CallerRead(k)

\* a Yamux server and its clients, and one Connect at a time between the
\* routers of the first client's session, used as in yamux_test.go: the
\* server's Bon registers handlers and runs, the client's Bon connects
NextYamux ==
  \/ YRunServer
  \/ \E c \in YClients : YRunClient(c)
  \/ YAccept
  \/ \E y \in Yamuxes, c \in YClients : YSessionSend(y, c)
  \/ \E y \in Yamuxes, c \in YClients : YSessionClose(y, c)
  \/ YClose
  \/ \E y \in Yamuxes : YRecv(y)
  \/ \E r \in Routes : Holds(YServerBon) /\ Handle(YServerBon, r, HandlerFor(r))
  \/ \E h \in NonMatchingHandlers :
        Holds(YServerBon) /\ HandleNonMatching(YServerBon, h)
  \/ Holds(YServerBon) /\ RunStart(YServerBon)
  \/ YAlive /\ RunAccept(YServerBon)
  \/ YAlive /\ RunSpawn(YServerBon)
  \/ \E k \in SoloCallIds, r \in Routes :
        Holds(YClientBon) /\ ConnectOpen(k, YClientBon, r)
  \/ \E k \in SoloCallIds : YAlive /\ ConnectWrite(k)
  \/ \E k \in SoloCallIds : YAlive /\ ConnectRead(k)
  \/ \E k \in SoloCallIds : YAlive /\ TaskReadTag(k)
  \/ \E k \in SoloCallIds : YAlive /\ TaskLookup(k)
  \/ \E k \in SoloCallIds : YAlive /\ TaskFallback(k)
  \/ \E k \in SoloCallIds : YAlive /\ TaskReread(k)
  \/ \E k \in SoloCallIds : YAlive /\ TaskWriteStatus(k)
  \/ \E k \in SoloCallIds : YAlive /\ TaskAct(k)
  \/ \E k \in SoloCallIds : YAlive /\ CallerRead(k)

\* serving: accept loops, Connects and dispatch over registries that stay
\* as they were set up
NextServe ==
  \/ \E b \in Bons : RunStart(b)
  \/ \E b \in Bons : RunSpawn(b)
  \/ \E k \in CallIds, b \in Bons, r \in Routes : ConnectOpen(k, b, r)
  \/ \E k \in CallIds : ConnectWrite(k)
  \/ \E k \in CallIds : ConnectRead(k)
  \/ \E k \in CallIds : TaskReadTag(k)
  \/ \E k \in CallIds : TaskLookup(k)
  \/ \E k \in CallIds : TaskFallback(k)
  \/ \E k \in CallIds : TaskReread(k)
  \/ \E k \in CallIds : TaskWriteStatus(k)
  \/ \E k \in CallIds : TaskAct(k)
  \/ \E k \in CallIds : CallerRead(k)

\* the steps of the receiving side: the Run loop and its handleConn
\* goroutines; a caller may stop sending at any point
ReceiverSteps ==
  \/ \E b \in Bons : RunSpawn(b)
  \/ \E k \in CallIds : TaskReadTag(k)
  \/ \E k \in CallIds : TaskLookup(k)
  \/ \E k \in CallIds : TaskFallback(k)
  \/ \E k \in CallIds : TaskReread(k)
  \/ \E k \in CallIds : TaskWriteStatus(k)
  \/ \E k \in CallIds : TaskAct(k)

\* one Connect at a time, with any handler registered for any route, so
\* that a route's handler may be replaced by another
NextRegistry ==
  \/ \E b \in Bons, r \in Routes, h \in Handlers : Handle(b, r, h)
  \/ \E b \in Bons, h \in NonMatchingHandlers : HandleNonMatching(b, h)
  \/ \E b \in Bons, r \in Routes : Off(b, r)
  \/ \E b \in Bons : OffNonMatching(b)
  \/ \E b \in Bons : RunStart(b)
  \/ \E b \in Bons : RunSpawn(b)
  \/ \E k \in SoloCallIds, b \in Bons, r \in Routes : ConnectOpen(k, b, r)
  \/ \E k \in SoloCallIds : ConnectWrite(k)
  \/ \E k \in SoloCallIds : ConnectRead(k)
  \/ \E k \in SoloCallIds : TaskReadTag(k)
  \/ \E k \in SoloCallIds : TaskLookup(k)
  \/ \E k \in SoloCallIds : TaskFallback(k)
  \/ \E k \in SoloCallIds : TaskReread(k)
  \/ \E k \in SoloCallIds : TaskWriteStatus(k)
  \/ \E k \in SoloCallIds : TaskAct(k)
  \/ \E k \in SoloCallIds : CallerRead(k)

\* one Connect at a time between routers that are set up and left alone
NextConnect ==
  \/ \E b \in Bons : RunStart(b)
  \/ \E b \in Bons : RunSpawn(b)
  \/ \E k \in SoloCallIds, b \in Bons, r \in Routes : ConnectOpen(k, b, r)
  \/ \E k \in SoloCallIds : ConnectWrite(k)
  \/ \E k \in SoloCallIds : ConnectRead(k)
  \/ \E k \in SoloCallIds : TaskReadTag(k)
  \/ \E k \in SoloCallIds : TaskLookup(k)
  \/ \E k \in SoloCallIds : TaskFallback(k)
  \/ \E k \in SoloCallIds : TaskReread(k)
  \/ \E k \in SoloCallIds : TaskWriteStatus(k)
  \/ \E k \in SoloCallIds : TaskAct(k)
  \/ \E k \in SoloCallIds : CallerRead(k)

\* the Yamux transporters alone: Run, the sessions, Close at any moment,
\* and the receives from Bons
NextYamuxClose ==
  \/ YRunServer
  \/ \E c \in YClients : YRunClient(c)
  \/ YAccept
  \/ \E y \in Yamuxes, c \in YClients : YSessionSend(y, c)
  \/ \E y \in Yamuxes, c \in YClients : YSessionClose(y, c)
  \/ \E y \in Yamuxes : YCloseAnytime(y)
  \/ \E y \in Yamuxes : YRecv(y)

Spec == Init /\ [][Next]_vars

SpecYamuxClose == InitYamuxSession /\ [][NextYamuxClose]_vars

SpecConnect == InitServing /\ [][NextConnect]_vars

FairSpecConnect == SpecConnect /\ WF_vars(Scheduled)

SpecRegistry == Init /\ [][NextRegistry]_vars

SpecServe == InitServing /\ [][NextServe]_vars

FairSpecServe == SpecServe /\ WF_vars(ReceiverSteps)

SpecYamux == InitYamuxSession /\ [][NextYamux]_vars

SpecLocks == Init /\ [][NextLocks]_vars

SpecSolo == Init /\ [][NextSolo]_vars

FairSpecSolo == SpecSolo /\ WF_vars(Scheduled)

SpecFail == InitFail /\ [][NextSolo]_vars

SpecStream == InitStream /\ [][NextSolo]_vars

\* ------------------------------------------------------------ vocabulary
Opened(k) == conn[k].open

\* no registry operation since Connect k called Open
Stable(k) == Opened(k) /\ regOps = call[k].epoch

\* what the receiving router's registry holds for the route of Connect k
Exact(k) ==
  IF call[k].route \in DOMAIN handlers[Receiver(k)]
  THEN handlers[Receiver(k)][call[k].route]
  ELSE Nil
Fallback(k) == nonMatchingHandler[Receiver(k)]

Returned(k) == call[k].pc = "done"
ReturnedConn(k) == Returned(k) /\ call[k].conn = k /\ call[k].err = NoErr
StatusWritten(k) == task[k].pc \in {"act", "dispatched", "closed"}
TaskEnded(k) == task[k].pc \in {"dispatched", "closed", "failedRead", "failedWrite"}

\* the transporter operations of a Connect whose handshake completed
FullHandshake == << <<"Open", NoErr>>, <<"Write", NoErr>>, <<"Read", NoErr>> >>

\* ------------------------------------------------------------------- C1
\* C1: when the receiving router has handler H registered for route R and
\* its Run loop accepted the connection of a Connect(R), and the registry is
\* not changed meanwhile, Connect returns that connection with a nil error,
\* H is invoked with the connection exactly once (never twice, and
\* eventually once), no other handler is invoked with it and the router
\* does not close it.
C1_Safe ==
  \A k \in CallIds :
    (Stable(k) /\ Exact(k) # Nil) =>
      /\ Returned(k) => ReturnedConn(k)
      /\ task[k].invoked \in {<<>>, << Exact(k) >>}
      /\ TaskEnded(k) => task[k].invoked = << Exact(k) >>
      /\ ~conn[k].closedR

C1_RegisteredHandlerInvokedOnce ==
  /\ []C1_Safe
  /\ \A k \in CallIds : \A h \in {"h1", "h2"} :
       (Stable(k) /\ Exact(k) = h)
         ~> (~Stable(k) \/ (ReturnedConn(k) /\ task[k].invoked = << h >>))

C1_Witness ==
  \E k \in CallIds :
    /\ Stable(k) /\ Exact(k) # Nil
    /\ ReturnedConn(k)
    /\ task[k].invoked = << Exact(k) >>
    /\ nonMatchingHandler[Receiver(k)] # Nil

\* ------------------------------------------------------------------- C2
\* C2: for every connection handleConn processes, the status written and
\* the action taken agree: after a match status (exact or fallback) a
\* handler is invoked and the router does not close the connection, the
\* router closes the connection only after a no-match status, and no
\* Connect returns a connection that the receiving router closed without
\* invoking a handler.
C2_StatusAgreesWithAction ==
  \A k \in CallIds :
    /\ task[k].pc = "dispatched" =>
         task[k].handlerExistence \in {handlerExists, nonMatchingHandlerExists}
    /\ task[k].pc = "closed" =>
         task[k].handlerExistence = handlerDoesNotExists
    /\ conn[k].closedR => task[k].handlerExistence = handlerDoesNotExists
    /\ ReturnedConn(k) => ~(conn[k].closedR /\ task[k].invoked = <<>>)

\* ------------------------------------------------------------------- C3
\* C3: when the receiving router has neither a handler for route R nor a
\* fallback handler (and the registry is not changed meanwhile), a
\* Connect(R) whose handshake completes returns no connection and
\* HandlerError{R}, and no handler is invoked with the connection.
C3_NoHandlerGivesHandlerError ==
  \A k \in CallIds :
    (Stable(k) /\ Exact(k) = Nil /\ Fallback(k) = Nil) =>
      /\ (Returned(k) /\ call[k].steps = FullHandshake) =>
           /\ call[k].conn = 0
           /\ call[k].err = HandlerError(call[k].route)
      /\ task[k].invoked = <<>>

C3_Witness ==
  \E k \in CallIds :
    /\ Stable(k) /\ Exact(k) = Nil /\ Fallback(k) = Nil
    /\ Returned(k) /\ call[k].steps = FullHandshake
    /\ call[k].err = HandlerError(call[k].route)
    /\ task[k].pc = "closed"
    /\ DOMAIN handlers[Receiver(k)] # {}

\* ------------------------------------------------------------------- C4
\* the handler and the status the registry of the receiving router
\* prescribes for Connect k: the exact handler, else the fallback, else none
Prescribed(k) == IF Exact(k) # Nil THEN Exact(k) ELSE Fallback(k)

PrescribedStatus(k) ==
  IF Exact(k) # Nil THEN handlerExists
  ELSE IF Fallback(k) # Nil THEN nonMatchingHandlerExists
  ELSE handlerDoesNotExists

\* C4: lookup precedence, for a registry that is not changed during the
\* handshake: with an exact handler for R the status is exact-match and the
\* exact handler is invoked, never the fallback; with no exact handler and
\* a fallback the status is fallback-match, Connect succeeds and the
\* fallback is invoked; with neither (as after OffNonMatching) Connect
\* fails with HandlerError{R}.
C4_LookupPrecedence ==
  \A k \in CallIds :
    Stable(k) =>
      /\ StatusWritten(k) => task[k].handlerExistence = PrescribedStatus(k)
      /\ task[k].invoked # <<>> =>
           Prescribed(k) # Nil /\ task[k].invoked = << Prescribed(k) >>
      /\ task[k].pc = "dispatched" => task[k].invoked # <<>>
      /\ Returned(k) =>
           IF Prescribed(k) # Nil
           THEN ReturnedConn(k) /\ call[k].data = PrescribedStatus(k)
           ELSE call[k].conn = 0 /\ call[k].err = HandlerError(call[k].route)

C4_Witness ==
  \E k \in CallIds :
    /\ Stable(k) /\ Exact(k) = Nil /\ Fallback(k) # Nil
    /\ DOMAIN handlers[Receiver(k)] # {}
    /\ ReturnedConn(k) /\ call[k].data = nonMatchingHandlerExists
    /\ task[k].invoked = << Fallback(k) >>

\* ------------------------------------------------------------------- C5
\* C5: after Off(R) removed the handler of R, with no fallback handler and
\* no later registry operation, every Connect(R) that starts fails with
\* HandlerError{R} and no connection, the removed handler is not invoked and
\* the router closes the connection, as for a route never registered.
C5_OffUnregisters ==
  \A k \in CallIds :
    (Stable(k) /\ removed[Receiver(k)][call[k].route] # Nil
               /\ Fallback(k) = Nil) =>
      /\ Returned(k) =>
           call[k].conn = 0 /\ call[k].err = HandlerError(call[k].route)
      /\ task[k].invoked = <<>>
      /\ TaskEnded(k) => task[k].pc = "closed"

C5_Witness ==
  \E k \in CallIds :
    /\ Stable(k) /\ removed[Receiver(k)][call[k].route] # Nil
    /\ Fallback(k) = Nil
    /\ Returned(k) /\ call[k].err = HandlerError(call[k].route)
    /\ task[k].pc = "closed"

\* ------------------------------------------------------------------- C6
\* C6: Run returns only the error of a failed Accept; once Close is called
\* on a router whose Run loop is active, Run eventually returns an error;
\* Close leaves every connection and every handleConn goroutine as it is.
C6_CloseEndsRun ==
  /\ [](\A b \in Bons : run[b].pc = "returned" => run[b].err = ErrNet)
  /\ \A b \in Bons :
       (closed[b] /\ run[b].pc \in {"accept", "spawn"})
         ~> (run[b].pc = "returned")
  /\ [][(closed' # closed) => (conn' = conn /\ task' = task)]_vars

\* ------------------------------------------------------------------- C7
PayloadBytes == {Payload(h) : h \in {"h1", "h2", "f1"}}

\* C7: concurrent Connects are each dispatched to the handler registered
\* for their own route on their own receiving router, and the bytes a
\* caller reads from its connection are those written by the handler that
\* was invoked with that connection, never those of another Connect's
\* handler.
C7_ConcurrentConnectsOwnHandler ==
  \A k \in CallIds :
    /\ app[k] # <<>> =>
         /\ ReturnedConn(k)
         /\ task[k].invoked # <<>>
         /\ app[k] = << Payload(task[k].invoked[1]) >>
    /\ (Stable(k) /\ Exact(k) # Nil) =>
         /\ task[k].invoked # <<>> => task[k].invoked = << Exact(k) >>
         /\ app[k] # <<>> => app[k] = << Payload(Exact(k)) >>
         /\ \A j \in CallIds \ {k} :
              (Stable(j) /\ Exact(j) # Nil /\ Exact(j) # Exact(k)) =>
                /\ task[k].invoked # << Exact(j) >>
                /\ app[k] # << Payload(Exact(j)) >>

\* two Connects to distinct routes of one router in flight together: the
\* second has been served and read while the first still awaits its status
C7_Witness ==
  \E j, k \in CallIds :
    /\ j # k /\ Stable(j) /\ Stable(k)
    /\ call[j].from = call[k].from /\ call[j].route # call[k].route
    /\ call[j].pc = "read" /\ task[j].invoked = << Exact(j) >>
    /\ Exact(j) # Nil /\ Exact(k) # Nil
    /\ ReturnedConn(k) /\ app[k] = << Payload(Exact(k)) >>

\* ------------------------------------------------------------------- C8
Ops(k) == [i \in 1..Len(call[k].steps) |-> call[k].steps[i][1]]
LastStep(k) == call[k].steps[Len(call[k].steps)]

\* C8: every return of Connect(R) is either (connection, nil) or
\* (nil, error); the error is HandlerError{R} only after a complete
\* handshake whose status is not a match; a failing Open, tag write or
\* status read is returned unchanged, is the last transporter operation of
\* the call, and Open is called exactly once.
C8_ConnectReturns ==
  \A k \in CallIds :
    Returned(k) =>
      /\ \/ call[k].conn = k /\ call[k].err = NoErr
         \/ call[k].conn = 0 /\ call[k].err # NoErr
      /\ Ops(k) \in {<<"Open">>, <<"Open", "Write">>, <<"Open", "Write", "Read">>}
      /\ \A i \in 1..(Len(call[k].steps) - 1) : call[k].steps[i][2] = NoErr
      /\ LastStep(k)[2] # NoErr => call[k].err = LastStep(k)[2]
      /\ LastStep(k)[2] = NoErr =>
           /\ call[k].steps = FullHandshake
           /\ IF call[k].data \in {handlerExists, nonMatchingHandlerExists}
              THEN call[k].conn = k
              ELSE call[k].err = HandlerError(call[k].route)
      /\ IsHandlerError(call[k].err) =>
           /\ call[k].steps = FullHandshake
           /\ call[k].err = HandlerError(call[k].route)
           /\ call[k].data \notin {handlerExists, nonMatchingHandlerExists}

C8_Witness ==
  \E k \in CallIds :
    /\ Returned(k)
    /\ call[k].steps = << <<"Open", NoErr>>, <<"Write", NoErr>>, <<"Read", ErrIO>> >>
    /\ call[k].err = ErrIO /\ call[k].conn = 0
    /\ task[k].pc = "dispatched"

\* ------------------------------------------------------------------- C9
\* C9: on every connection the router that receives consumes exactly the 4
\* route-tag bytes and decodes the route that was sent, the router that
\* initiates consumes exactly the 4 status bytes and decodes the status
\* that was sent, and the first byte the caller of Connect reads is the
\* first byte the handler wrote; whatever sizes Read returns.
C9_ExactlyEightHandshakeBytes ==
  \A k \in CallIds :
    /\ task[k].pc \notin {"none", "readTag", "failedRead"} =>
         task[k].data = call[k].route /\ conn[k].up = <<>>
    /\ (Returned(k) /\ call[k].steps = FullHandshake) =>
         call[k].data = task[k].handlerExistence
    /\ app[k] # <<>> => app[k][1] \in PayloadBytes

\* ------------------------------------------------------------------ C10
\* C10: a Connect(R) for which no handler is registered gets
\* HandlerError{R}, and once the handshake is over both ends of the
\* connection opened for it are closed.
C10_FailedConnectLeavesNoOpenEnd ==
  \A k \in CallIds :
    (Stable(k) /\ Exact(k) = Nil /\ Fallback(k) = Nil
               /\ Returned(k) /\ TaskEnded(k)) =>
      /\ call[k].err = HandlerError(call[k].route)
      /\ conn[k].closedR
      /\ conn[k].closedI

\* ------------------------------------------------------------------ C11
\* C11: every read of the handler map and every read of the fallback slot
\* made by a handleConn goroutine is made with the read lock of that
\* variable held (hm for b.handlers, nhm for b.nonMatchingHandler), and none
\* is made while Handle, Off, HandleNonMatching or OffNonMatching is inside
\* its critical section on that variable.
C11_ReadsUnderReadLock ==
  \A k \in CallIds :
    \A i \in 1..Len(task[k].reads) :
      /\ task[k].reads[i][1] = "handlers" => task[k].reads[i][2] = "hm"
      /\ task[k].reads[i][1] = "nonMatchingHandler" => task[k].reads[i][2] = "nhm"
      /\ ~task[k].reads[i][3]

\* ------------------------------------------------------------------ C12
\* a Connect made after Close was called on its own router, toward a peer
\* that was blocked in Accept
AfterOwnClose(k) ==
  call[k].pc # "idle" /\ call[k].closedAtOpen /\ call[k].peerAtOpen = "accept"

\* a Connect toward a router whose Run was not accepting: never started,
\* returned after Close, or stopped by Close
TowardStopped(k) ==
  call[k].pc # "idle" /\ call[k].peerAtOpen \in {"idle", "returned", "hung"}

C12_Safe ==
  \A k \in CallIds :
    /\ AfterOwnClose(k) =>
         /\ Opened(k)
         /\ (Returned(k) /\ Stable(k)) =>
              IF Prescribed(k) # Nil
              THEN /\ ReturnedConn(k)
                   /\ task[k].invoked \in {<<>>, << Prescribed(k) >>}
              ELSE call[k].conn = 0 /\ call[k].err = HandlerError(call[k].route)
    /\ TowardStopped(k) =>
         /\ Returned(k) /\ ~Opened(k)
         /\ call[k].conn = 0 /\ call[k].err = ErrNet
         /\ call[k].steps = << <<"Open", ErrNet>> >>

\* C12: Close stops only the router's own accepting: a Connect made after
\* Close on its own router, toward a peer blocked in Accept, opens a
\* connection, eventually returns, and returns the peer's answer (a
\* connection when the peer has a handler, HandlerError{R} when it has
\* none); a Connect toward a router that was closed or never ran Run
\* returns the provider's error and no connection, never a routing error.
C12_CloseStopsOnlyOwnAccept ==
  /\ []C12_Safe
  /\ \A k \in CallIds : AfterOwnClose(k) ~> Returned(k)

C12_Witness ==
  \E k \in CallIds :
    /\ AfterOwnClose(k) /\ Stable(k)
    /\ ReturnedConn(k) /\ Exact(k) # Nil
    /\ task[k].invoked = << Exact(k) >>
    /\ run[call[k].from].pc = "returned"

\* ------------------------------------------------------------------ C13
\* the Bons a Yamux has published so far, received or still buffered
Published(y) == SelectSeq(ymx.got[y], LAMBDA b : b # NilBon) \o ymx.Bons[y]

TimesPublished(y, b) ==
  Cardinality({i \in 1..Len(Published(y)) : Published(y)[i] = b})

\* C13: a client Yamux publishes exactly one Bon, that of its session, and
\* then closes Bons, so that the receives yield that Bon and then nil; a
\* server Yamux publishes one Bon for each TCP connection it accepted, no
\* goroutine of it panics, its Bons is closed only by Close (together with
\* the listener) and a receive yields nil only after that; a Connect on
\* the client's Bon for a route handled on the server's Bon returns a
\* connection, and the server's handler is the one invoked with it.
C13_YamuxPublishesBons ==
  /\ YAlive
  /\ \A c \in YClients :
       /\ ymx.got[c] \in {<<>>, << << c, c >> >>, << << c, c >>, NilBon >>}
       /\ ymx.closedBons[c] => Published(c) = << << c, c >> >>
       /\ ymx.session[<< c, c >>] = "done" => ymx.closedBons[c]
       /\ ymx.session[<< c, c >>] # "panicked"
  /\ \A c \in YClients :
       /\ ymx.session[<< YServer, c >>] # "panicked"
       /\ ymx.session[<< YServer, c >>] = "done" =>
            TimesPublished(YServer, << YServer, c >>) = 1
       /\ ymx.session[<< YServer, c >>] # "done" =>
            TimesPublished(YServer, << YServer, c >>) = 0
  /\ ymx.closedBons[YServer] => ymx.ln = "closed"
  /\ \A i \in 1..Len(ymx.got[YServer]) :
       ymx.got[YServer][i] = NilBon =>
         ymx.closedBons[YServer] /\ i = Len(ymx.got[YServer])
  /\ \A k \in CallIds :
       (transport = "yamux" /\ Stable(k) /\ Exact(k) # Nil) =>
         /\ call[k].from = YClientBon
         /\ Returned(k) => ReturnedConn(k)
         /\ task[k].invoked \in {<<>>, << Exact(k) >>}
         /\ TaskEnded(k) => task[k].invoked = << Exact(k) >>

\* ------------------------------------------------------------------ C14
\* the states of an accepted connection, by the position of its handleConn
Phase(pc) ==
  CASE pc = "none" -> "NotAccepted"
    [] pc = "readTag" -> "AwaitingRouteTag"
    [] pc \in {"lookup", "fallback", "reread"} -> "LookingUp"
    [] pc \in {"writeStatus", "act"} -> "RespondingStatus"
    [] pc = "dispatched" -> "Dispatched"
    [] pc = "closed" -> "RejectedAndClosed"
    [] pc \in {"failedRead", "failedWrite"} -> "Abandoned"

PhaseSteps ==
  { << "NotAccepted", "AwaitingRouteTag" >>,
    << "AwaitingRouteTag", "LookingUp" >>,
    << "AwaitingRouteTag", "Abandoned" >>,
    << "LookingUp", "LookingUp" >>,
    << "LookingUp", "RespondingStatus" >>,
    << "RespondingStatus", "RespondingStatus" >>,
    << "RespondingStatus", "Abandoned" >>,
    << "RespondingStatus", "Dispatched" >>,
    << "RespondingStatus", "RejectedAndClosed" >> }

\* the steps of handleConn in the order of its statements
PcOrder(pc) ==
  CASE pc = "none" -> 0
    [] pc = "readTag" -> 1
    [] pc = "lookup" -> 2
    [] pc = "fallback" -> 3
    [] pc = "reread" -> 4
    [] pc = "writeStatus" -> 5
    [] pc = "act" -> 6
    [] OTHER -> 7

C14_Step(k) ==
  /\ task'[k].pc # task[k].pc =>
       /\ << Phase(task[k].pc), Phase(task'[k].pc) >> \in PhaseSteps
       /\ PcOrder(task'[k].pc) > PcOrder(task[k].pc)
  \* the route tag is read while awaiting it, and only then
  /\ (task'[k].data # task[k].data \/ Len(conn'[k].up) < Len(conn[k].up)) =>
       task[k].pc = "readTag"
  /\ Phase(task'[k].pc) = "LookingUp" /\ task[k].pc = "readTag" =>
       Len(conn'[k].up) < Len(conn[k].up)
  \* the registry is read only while looking up
  /\ (task'[k].h # task[k].h \/ task'[k].reads # task[k].reads
        \/ task'[k].handlerExistence # task[k].handlerExistence) =>
       Phase(task[k].pc) = "LookingUp"
  \* the status is written once, after the lookup and before the action
  /\ task[k].pc # "writeStatus" => task'[k].pc \notin {"act", "failedWrite"} \ {task[k].pc}
  /\ task[k].pc = "writeStatus" /\ task'[k].pc = "act" =>
       conn'[k].down = conn[k].down \o writeUInt32(task[k].handlerExistence)
  /\ task[k].pc # "writeStatus" /\ Phase(task'[k].pc) # "Dispatched" =>
       Len(conn'[k].down) <= Len(conn[k].down)
  \* the handler is invoked, or the connection closed, only after that
  /\ (task'[k].invoked # task[k].invoked \/ conn'[k].closedR # conn[k].closedR) =>
       /\ task[k].pc = "act"
       /\ Phase(task'[k].pc) \in {"Dispatched", "RejectedAndClosed"}
  \* the terminal states are never left
  /\ Phase(task[k].pc) \in {"Dispatched", "RejectedAndClosed", "Abandoned"} =>
       task'[k] = task[k]

\* C14: each accepted connection moves only along AwaitingRouteTag ->
\* LookingUp -> RespondingStatus -> {Dispatched | RejectedAndClosed}: the
\* tag is read before the lookup, the lookup precedes the status write, the
\* status write precedes the invocation or the close, each step happens at
\* most once and terminal states are never left; the steps of a connection
\* are enabled whatever the state of the other connections.
C14_ConnectionStateMachine ==
  /\ [][\A k \in CallIds : C14_Step(k)]_vars
  /\ [](\A k \in CallIds :
          /\ task[k].pc = "lookup" => ENABLED TaskLookup(k)
          /\ task[k].pc = "fallback" => ENABLED TaskFallback(k)
          /\ task[k].pc = "reread" => ENABLED TaskReread(k)
          /\ task[k].pc = "writeStatus" => ENABLED TaskWriteStatus(k)
          /\ task[k].pc = "act" => ENABLED TaskAct(k))

\* a connection accepted second is dispatched while the first one still
\* awaits its route tag
C14_Witness ==
  /\ task[1].pc = "readTag" /\ task[2].pc = "dispatched"
  /\ call[1].from = call[2].from
  /\ task[2].reads # <<>>

\* ------------------------------------------------------------------ C15
\* handleConn k gave up on an I/O failure, or waits for a route tag that
\* its peer has not sent
FailedOrStalled(k) ==
  \/ task[k].pc \in {"failedRead", "failedWrite"}
  \/ task[k].pc = "readTag" /\ conn[k].up = <<>>

\* handleConn k ended as its registry prescribes, unless its own I/O failed
Served(k) ==
  \/ task[k].pc \in {"failedRead", "failedWrite"}
  \/ task[k].pc = "dispatched" /\ task[k].invoked = << Prescribed(k) >>
  \/ task[k].pc = "closed" /\ Prescribed(k) = Nil

\* C15: a failure or a stall in the handshake of one connection affects
\* neither the accept loop nor the other connections: Run never returns
\* because of it, Run goes back to Accept after starting handleConn
\* without waiting for it, and a connection whose route tag arrived is
\* served (dispatched to its handler, or rejected when there is none)
\* whatever happened to the other connections.
C15_HandshakeFailuresAreIsolated ==
  /\ [](\A b \in Bons : run[b].pc \notin {"returned", "hung"} /\ run[b].err = NoErr)
  /\ \A b \in Bons : (run[b].pc = "spawn") ~> (run[b].pc = "accept")
  /\ \A k \in CallIds :
       (task[k].pc = "readTag" /\ conn[k].up # <<>>) ~> Served(k)
  /\ \A j \in CallIds : \A k \in CallIds \ {j} :
       (FailedOrStalled(j) /\ task[k].pc = "readTag" /\ conn[k].up # <<>>)
         ~> Served(k)

\* the first connection's tag read failed and the second, accepted later by
\* the same Run loop, was dispatched to its handler
C15_Witness ==
  /\ task[1].pc = "failedRead" /\ task[2].pc = "dispatched"
  /\ call[1].from = call[2].from
  /\ task[2].invoked = << Exact(2) >>
  /\ run[Receiver(2)].pc = "accept"

\* ------------------------------------------------------------------ C16
\* C16: when handleConn fails to read the route tag, no lookup is made, no
\* status is written and no handler is invoked; when it fails to write the
\* status, no handler is invoked even if one was found; in both cases the
\* router does not close the connection, Run does not return because of
\* the failure, and the Connect of that connection never returns the
\* router's failure: it returns only a failure of its own I/O.
C16_ReceiverFailuresAbandonSilently ==
  \A k \in CallIds :
    /\ task[k].pc = "failedRead" =>
         /\ task[k].reads = <<>> /\ task[k].h = Nil
         /\ task[k].handlerExistence = 0
    /\ task[k].pc \in {"failedRead", "failedWrite"} =>
         /\ conn[k].down = <<>> /\ call[k].data = 0
         /\ task[k].invoked = <<>>
         /\ ~conn[k].closedR
         /\ app[k] = <<>>
         /\ run[Receiver(k)].pc = "returned" =>
              closed[Receiver(k)] /\ run[Receiver(k)].err = ErrNet
         /\ run[Receiver(k)].pc # "returned" => run[Receiver(k)].err = NoErr
         /\ Returned(k) =>
              /\ call[k].conn = 0
              /\ LastStep(k)[2] # NoErr /\ call[k].err = LastStep(k)[2]
              /\ LastStep(k)[1] \in {"Write", "Read"}

\* the status write failed with a handler found, and Run is accepting
C16_Witness ==
  \E k \in CallIds :
    /\ task[k].pc = "failedWrite" /\ task[k].h # Nil
    /\ task[k].handlerExistence = handlerExists
    /\ run[Receiver(k)].pc = "accept"
    /\ call[k].pc = "read"

\* ------------------------------------------------------------------ C17
RouterActors == {"Connect", "handleConn"}
OwnerActors == {"caller", "handler"}

\* in the calls made on one end, none by a router follows one by the owner
\* the end was handed to
HardHandoff(ops) ==
  \A i \in 1..Len(ops) : \A j \in 1..Len(ops) :
    (i < j /\ ops[i][1] \in OwnerActors) => ops[j][1] \in OwnerActors

ByRouter(ops) == SelectSeq(ops, LAMBDA o : o[1] \in RouterActors)

C17_Safe ==
  \A k \in CallIds :
    /\ HardHandoff(conn[k].opsI) /\ HardHandoff(conn[k].opsR)
    /\ \A i \in 1..Len(conn[k].opsI) :
         /\ conn[k].opsI[i][1] \in {"Connect", "caller"}
         /\ conn[k].opsI[i][1] = "caller" => ReturnedConn(k)
    /\ \A i \in 1..Len(conn[k].opsR) :
         /\ conn[k].opsR[i][1] \in {"handleConn", "handler"}
         /\ conn[k].opsR[i][1] = "handler" => task[k].invoked # <<>>

C17_Step(k) ==
  /\ task[k].invoked # <<>> =>
       /\ ByRouter(conn'[k].opsR) = ByRouter(conn[k].opsR)
       /\ conn'[k].closedR = conn[k].closedR
  /\ Returned(k) =>
       /\ ByRouter(conn'[k].opsI) = ByRouter(conn[k].opsI)
       /\ conn'[k].closedI = conn[k].closedI

\* C17: each end of a connection is used by one owner at a time: the
\* receiving router reads, writes or closes its end only before it invokes
\* the handler and never after, the initiating router uses its end only
\* until Connect returns, and the handler and the caller use theirs only
\* after the handoff.
C17_OwnershipHandoff ==
  /\ []C17_Safe
  /\ [][\A k \in CallIds : C17_Step(k)]_vars

C17_Witness ==
  \E k \in CallIds :
    /\ conn[k].opsR = << << "handleConn", "Read" >>, << "handleConn", "Write" >>,
                         << "handler", "Write" >> >>
    /\ conn[k].opsI = << << "Connect", "Write" >>, << "Connect", "Read" >>,
                         << "caller", "Read" >> >>

\* ------------------------------------------------------------------ C18
\* the registry of router b after a step differs from the one before at
\* most in the handler of route r
OnlyRouteChanged(b, r) ==
  /\ \A x \in Routes \ {r} :
       /\ x \in DOMAIN handlers'[b] <=> x \in DOMAIN handlers[b]
       /\ x \in DOMAIN handlers[b] => handlers'[b][x] = handlers[b][x]
  /\ handlers'[Peer(b)] = handlers[Peer(b)]
  /\ nonMatchingHandler' = nonMatchingHandler

C18_Step ==
  /\ \A b \in Bons, r \in Routes, h \in Handlers :
       Handle(b, r, h) =>
         /\ r \in DOMAIN handlers'[b] /\ handlers'[b][r] = h
         /\ OnlyRouteChanged(b, r)
  /\ \A b \in Bons, r \in Routes :
       Off(b, r) =>
         /\ r \notin DOMAIN handlers'[b]
         /\ OnlyRouteChanged(b, r)
         /\ r \notin DOMAIN handlers[b] => handlers' = handlers
  /\ nonMatchingHandler' # nonMatchingHandler => handlers' = handlers

\* the algebra of the map operations on the registries reached
C18_Maps ==
  \A b \in Bons : \A r \in Routes :
    /\ \A h \in Handlers :
         /\ Put(Put(handlers[b], r, h), r, h) = Put(handlers[b], r, h)
         /\ Lookup(Put(handlers[b], r, h), r) = h
         /\ \A g \in Handlers : Put(Put(handlers[b], r, g), r, h) = Put(handlers[b], r, h)
         /\ \A x \in Routes \ {r} :
              Lookup(Put(handlers[b], r, h), x) = Lookup(handlers[b], x)
    /\ r \notin DOMAIN handlers[b] => Delete(handlers[b], r) = handlers[b]
    /\ Lookup(Delete(handlers[b], r), r) = Nil
    /\ \A x \in Routes \ {r} :
         Lookup(Delete(handlers[b], r), x) = Lookup(handlers[b], x)

\* C18: the registry operations have map semantics: Handle(r, h)
\* overwrites the handler of r, so that a connection looked up afterwards
\* is dispatched to h, the last handler registered; Handle(r, h) twice is
\* Handle(r, h) once; Off(r) of a route without handler changes nothing;
\* Handle and Off of r leave the other routes and the fallback slot as they
\* were, and HandleNonMatching and OffNonMatching leave the map as it was.
C18_RegistryMapSemantics ==
  /\ [][C18_Step]_vars
  /\ []C18_Maps
  /\ [](\A k \in CallIds :
          (Stable(k) /\ Exact(k) # Nil /\ task[k].invoked # <<>>) =>
            task[k].invoked = << Exact(k) >>)

\* a route's handler h1 was replaced by h2, and a Connect made afterwards
\* was dispatched to h2
C18_Witness ==
  \E k \in CallIds :
    /\ Stable(k) /\ Exact(k) = "h2"
    /\ replaced[Receiver(k)][call[k].route] = "h1"
    /\ task[k].invoked = << "h2" >>
    /\ app[k] = << Payload("h2") >>

\* ------------------------------------------------------------------ C19
\* the receiving side has given up without a status on the wire
PeerHung(k) ==
  task[k].pc \in {"failedRead", "failedWrite"} /\ conn[k].down = <<>>

C19_Safe ==
  \A k \in CallIds :
    \* Connect has returned: its last step failed, or was the status read
    /\ Returned(k) =>
         \/ LastStep(k)[2] # NoErr /\ call[k].err = LastStep(k)[2]
         \/ /\ LastStep(k) = << "Read", NoErr >>
            /\ call[k].data \in {handlerExists, nonMatchingHandlerExists,
                                  handlerDoesNotExists}
    \* while no status has come and the connection does not fail, Connect
    \* cannot move
    /\ (call[k].pc = "read" /\ conn[k].down = <<>> /\ transport = "pipe") =>
         ~ ENABLED ConnectRead(k)

C19_Step(k) ==
  \* a hung peer stays hung
  /\ PeerHung(k) => PeerHung(k)'
  \* and Connect leaves its read of the status only with bytes read or with
  \* the error of the Read
  /\ (call[k].pc = "read" /\ call'[k] # call[k]) =>
       /\ Returned(k)'
       /\ conn[k].down = <<>> =>
            /\ call'[k].err \in {ErrIO, ErrClosed, EOF}
            /\ call'[k].conn = 0
            /\ LastStep(k)' = << "Read", call'[k].err >>

\* C19: the Router applies no timeout to the handshake: Connect returns
\* only after the status has been read or an I/O step has failed, so a
\* Connect whose peer accepted the connection and never writes a status
\* stays blocked for as long as the connection does not fail; and when the
\* peer's accept loop runs and no I/O fails, every Connect eventually
\* returns under fair scheduling.
C19_NoHandshakeTimeout ==
  /\ []C19_Safe
  /\ [][\A k \in CallIds : C19_Step(k)]_vars
  /\ \A k \in CallIds :
       (transport = "pipe" /\ call[k].pc \in {"write", "read"}) ~> Returned(k)

\* the peer accepted the connection, failed before writing a status, and
\* Connect is waiting for it
C19_Witness ==
  \E k \in CallIds :
    /\ call[k].pc = "read"
    /\ PeerHung(k)
    /\ call[k].peerAtOpen = "accept"

\* ------------------------------------------------------------------ C20
\* handleConn has finished its lookup and holds the status it reports
LookedUp(k) ==
  task[k].pc \in {"writeStatus", "act", "dispatched", "closed", "failedWrite"}

\* the statuses a lookup of the route would have had in the registries that
\* existed from the moment handleConn had the route to the end of its lookup
StatusesSeen(k) == {o[1] : o \in task[k].seen}

\* C20: the lookup of a dispatch task is atomic with respect to the
\* registry operations: the outcome it reports (exact handler, fallback, no
\* handler) is the outcome of looking the route up in the registry as it
\* stood at one instant between the start and the end of the lookup; in
\* particular it reports no handler only if at some instant the registry
\* had neither an exact handler nor a fallback.
C20_LookupIsAtomic ==
  \A k \in CallIds :
    LookedUp(k) => task[k].handlerExistence \in StatusesSeen(k)

\* ------------------------------------------------------------------ C21
\* Connect has returned without handing the connection it opened to its
\* caller
KeptFromCaller(k) == Returned(k) /\ Opened(k) /\ call[k].conn = 0

\* the receiving side has returned from handleConn without closing
ReceiverGaveUp(k) == task[k].pc \in {"failedRead", "failedWrite"}

\* C21: Connect leaks no connection: when it returns after Open succeeded,
\* the connection is in the caller's hands or has been closed; where the
\* write of the tag or the read of the status failed it is not left open
\* and out of the caller's reach.  Read here in its weakest sense: an end
\* closed by either router counts, and so does a receiving side that is
\* still at work and may close it.
C21_ConnectLeaksNoConnection ==
  \A k \in CallIds :
    (KeptFromCaller(k) /\ ReceiverGaveUp(k)) =>
      (conn[k].closedI \/ conn[k].closedR)

\* ------------------------------------------------------------------ C22
\* C22: in the yamux transporter Bons is closed at most once and nothing
\* is sent on it once it is closed, whatever the interleaving of Run, the
\* handleSession goroutines and Close (Close while a session is set up,
\* Close twice, Close of a server without listener): nothing of Yamux
\* panics.
C22_BonsClosedOnceNeverSentAfter ==
  /\ ymx.panic = "none"
  /\ \A s \in YSessions : ymx.session[s] # "panicked"

====
